---- MODULE Spec2Model ----
(***************************************************************************)
(* Universal Orlando wait time tracker: the SQLite store (database.py) and *)
(* the collector (collector.py) as a state machine.                        *)
(*                                                                         *)
(* Python's None (and SQL NULL, and JSON null) is the empty tuple; a       *)
(* present value v is the one-element tuple <<v>>.  A JSON object is a     *)
(* function from its keys to such values, so an absent key and a null      *)
(* value are distinguished the way dict.get distinguishes them.            *)
(***************************************************************************)
EXTENDS Integers, Sequences, FiniteSets, TLC

None == <<>>
Some(v) == <<v>>
Val(o) == o[1]

(***************************************************************************)
(* Bounds of the model.                                                    *)
(***************************************************************************)
\* direct store calls are followed while wait_times holds fewer rows than this
MaxReadings == 2
\* rows a direct store call may add to a table by a NULL primary key
MaxAutoRows == 1
\* parse_rides is called with responses of up to MaxLands lands and up to
\* MaxListed rides in each rides list
MaxLands == 2
MaxListed == 2

(***************************************************************************)
(* config.py                                                               *)
(***************************************************************************)
PARKS == << [id |-> 64, name |-> "Islands of Adventure"],
            [id |-> 65, name |-> "Universal Studios Florida"],
            [id |-> 334, name |-> "Epic Universe"] >>
MAX_RETRIES == 3
\* config.COLLECTION_INTERVAL_MINUTES: the scheduler starts a run every 30 minutes
COLLECTION_INTERVAL_MINUTES == 30

(***************************************************************************)
(* Time: seconds since a Monday 00:00:00 (local time).                     *)
(***************************************************************************)
\* datetime.weekday(): 0 = Monday .. 6 = Sunday
weekday(t) == (t \div 86400) % 7
\* datetime.hour
hour_of(t) == (t % 86400) \div 3600
\* a Monday 14:30:00 and a Saturday 12:00:00
Monday1430 == 14 * 3600 + 30 * 60
Saturday1200 == 5 * 86400 + 12 * 3600

VARIABLES
    schema,            \* names of the tables and indexes that exist
    parks,             \* rows of table parks: [id, name]
    lands,             \* rows of table lands: [id, park_id, name]
    rides,             \* rows of table rides: [id, land_id, park_id, name]
    wait_times,        \* rows of table wait_times, in insertion order
    call,              \* the last store operation called, its arguments and outcome
    now,               \* the wall clock, datetime.now()
    pc,                \* position of the collector process
    collected_at,      \* collect_all_parks: the run's timestamp
    results,           \* collect_all_parks: park name -> outcome so far
    park_idx,          \* collect_all_parks: index into PARKS of the park in progress
    attempt,           \* fetch_park_data: loop variable
    sent,              \* requests.get calls issued by the current fetch_park_data
    slept,             \* time.sleep calls made by the current fetch_park_data
    data,              \* collect_park: the fetched response, None if the fetch failed
    ride_records,      \* collect_park: rides = parse_rides(data, park_id)
    ride_idx,          \* collect_park: position of the for loop in ride_records
    records_inserted,  \* collect_park: counter
    served,            \* per park of this run: the response fetched, None if the fetch failed
    before,            \* ride ids and reading count on entry to the current collect_park
    exit_status,       \* exit status of the process, None while it runs
    printed,           \* check_status: the counts it printed, None if it has not run
    earlier            \* the run before this one: its responses and what it left

store == <<schema, parks, lands, rides, wait_times>>
collector == <<pc, collected_at, results, park_idx, attempt, sent, slept, data,
               ride_records, ride_idx, records_inserted, served, before,
               exit_status, printed, earlier>>
vars == <<schema, parks, lands, rides, wait_times, call, now, pc, collected_at,
          results, park_idx, attempt, sent, slept, data, ride_records, ride_idx,
          records_inserted, served, before, exit_status, printed, earlier>>

(***************************************************************************)
(* database.py: the store                                                  *)
(***************************************************************************)
SetMax(S) == CHOOSE m \in S : \A x \in S : x <= m
Ids(table) == {r.id : r \in table}
\* the row of a table with a given id (the table holds one)
Row(table, id) == CHOOSE r \in table : r.id = id
\* SQLite: a NULL INTEGER PRIMARY KEY is given the largest rowid plus one
NextRowid(table) == IF table = {} THEN 1 ELSE SetMax(Ids(table)) + 1
RowKey(table, id) == IF id = None THEN NextRowid(table) ELSE Val(id)

\* a connection that never turns foreign key enforcement on
foreign_keys_off == FALSE

\* get_connection: PRAGMA foreign_keys = ON
foreign_keys == TRUE

AllSchema == {"parks", "lands", "rides", "wait_times",
              "idx_wait_times_collected_at", "idx_wait_times_ride_id"}

\* init_database: CREATE TABLE / INDEX IF NOT EXISTS
init_database(sch) == sch \cup AllSchema

\* an insert that does not look for the primary key
park_ignored_no_key(ps, park_id, name) ==
    name = None

\* INSERT OR IGNORE skips the row on a NOT NULL or PRIMARY KEY conflict
park_ignored(ps, park_id, name) ==
    name = None \/ RowKey(ps, park_id) \in Ids(ps)

\* insert_park: the exception it raises, "none" if it returns
insert_park_raises(sch, ps, park_id, name) ==
    IF "parks" \notin sch THEN "OperationalError" ELSE "none"

\* insert_park: table parks after a call that returns
insert_park(ps, park_id, name) ==
    IF park_ignored(ps, park_id, name) THEN ps
    ELSE ps \cup {[id |-> RowKey(ps, park_id), name |-> Val(name)]}

land_ignored(ls, land_id, park_id, name) ==
    name = None \/ park_id = None \/ RowKey(ls, land_id) \in Ids(ls)

\* insert_land: IGNORE works like ABORT for a foreign key violation
insert_land_raises(sch, ps, ls, land_id, park_id, name) ==
    IF "lands" \notin sch THEN "OperationalError"
    ELSE IF /\ ~land_ignored(ls, land_id, park_id, name)
            /\ foreign_keys
            /\ Val(park_id) \notin Ids(ps) THEN "IntegrityError"
    ELSE "none"

insert_land(ls, land_id, park_id, name) ==
    IF land_ignored(ls, land_id, park_id, name) THEN ls
    ELSE ls \cup {[id |-> RowKey(ls, land_id), park_id |-> Val(park_id),
                   name |-> Val(name)]}

\* an insert that does not look for the primary key
ride_ignored_no_key(rs, ride_id, park_id, name) ==
    name = None \/ park_id = None

ride_ignored(rs, ride_id, park_id, name) ==
    name = None \/ park_id = None \/ RowKey(rs, ride_id) \in Ids(rs)

\* an insert_ride whose land reference is not checked
insert_ride_raises_park_only(sch, ps, ls, rs, ride_id, park_id, name, land_id) ==
    IF "rides" \notin sch THEN "OperationalError"
    ELSE IF /\ ~ride_ignored(rs, ride_id, park_id, name)
            /\ foreign_keys
            /\ Val(park_id) \notin Ids(ps) THEN "IntegrityError"
    ELSE "none"

\* insert_ride: IGNORE works like ABORT for a foreign key violation
insert_ride_raises(sch, ps, ls, rs, ride_id, park_id, name, land_id) ==
    IF "rides" \notin sch THEN "OperationalError"
    ELSE IF /\ ~ride_ignored(rs, ride_id, park_id, name)
            /\ foreign_keys
            /\ \/ Val(park_id) \notin Ids(ps)
               \/ land_id # None /\ Val(land_id) \notin Ids(ls) THEN "IntegrityError"
    ELSE "none"

insert_ride(rs, ride_id, park_id, name, land_id) ==
    IF ride_ignored(rs, ride_id, park_id, name) THEN rs
    ELSE rs \cup {[id |-> RowKey(rs, ride_id), land_id |-> land_id,
                   park_id |-> Val(park_id), name |-> Val(name)]}

\* an insert_wait_time whose ride reference is not checked
insert_wait_time_raises_unchecked(sch, rs, ride_id, is_open) ==
    IF "wait_times" \notin sch THEN "OperationalError"
    ELSE IF ride_id = None \/ is_open = None THEN "IntegrityError"
    ELSE "none"

\* insert_wait_time: plain INSERT, NOT NULL and foreign key violations raise
insert_wait_time_raises(sch, rs, ride_id, is_open) ==
    IF "wait_times" \notin sch THEN "OperationalError"
    ELSE IF ride_id = None \/ is_open = None THEN "IntegrityError"
    ELSE IF foreign_keys /\ Val(ride_id) \notin Ids(rs) THEN "IntegrityError"
    ELSE "none"

\* a row whose weekend flag is set for Sunday only
wait_time_row_sunday_only(wts, ride_id, wait_time, is_open, at, api_last_updated) ==
    LET day_of_week == weekday(at)
    IN  [id |-> Len(wts) + 1,
         ride_id |-> Val(ride_id),
         wait_time |-> wait_time,
         is_open |-> Val(is_open),
         collected_at |-> at,
         api_last_updated |-> api_last_updated,
         day_of_week |-> day_of_week,
         hour |-> hour_of(at),
         is_weekend |-> (day_of_week > 5)]

\* insert_wait_time: the row it writes, enriched with the time metadata
wait_time_row(wts, ride_id, wait_time, is_open, at, api_last_updated) ==
    LET day_of_week == weekday(at)
    IN  [id |-> Len(wts) + 1,
         ride_id |-> Val(ride_id),
         wait_time |-> wait_time,
         is_open |-> Val(is_open),
         collected_at |-> at,
         api_last_updated |-> api_last_updated,
         day_of_week |-> day_of_week,
         hour |-> hour_of(at),
         is_weekend |-> (day_of_week >= 5)]

\* an insert_wait_time that keeps one row per ride and collected_at
\* (INSERT OR REPLACE under a unique key)
insert_wait_time_replace(wts, ride_id, wait_time, is_open, at, api_last_updated) ==
    LET row  == wait_time_row(wts, ride_id, wait_time, is_open, at, api_last_updated)
        same == {i \in 1..Len(wts) : /\ wts[i].ride_id = row.ride_id
                                     /\ wts[i].collected_at = row.collected_at}
    IN  IF same = {} THEN Append(wts, row)
        ELSE [i \in 1..Len(wts) |-> IF i \in same THEN [row EXCEPT !.id = i]
                                                  ELSE wts[i]]

\* insert_wait_time: plain INSERT, the row gets the next id
insert_wait_time(wts, ride_id, wait_time, is_open, at, api_last_updated) ==
    Append(wts, wait_time_row(wts, ride_id, wait_time, is_open, at, api_last_updated))

\* get_ride_count, get_wait_time_count
get_ride_count(rs) == Cardinality(rs)
get_wait_time_count(wts) == Len(wts)


(***************************************************************************)
(* collector.py: parse_rides                                               *)
(***************************************************************************)
\* dict.get(key) and dict.get(key, default)
Get(d, k) == IF k \in DOMAIN d THEN d[k] ELSE None
GetOr(d, k, default) == IF k \in DOMAIN d THEN d[k] ELSE default

\* a ride dictionary in which a ride without is_open counts as open
ride_record_open_default(ride, land_id, land_name, park_id) ==
    [id |-> Get(ride, "id"),
     name |-> Get(ride, "name"),
     is_open |-> GetOr(ride, "is_open", Some(TRUE)),
     wait_time |-> Get(ride, "wait_time"),
     last_updated |-> Get(ride, "last_updated"),
     land_id |-> land_id,
     land_name |-> land_name,
     park_id |-> park_id]

\* the dictionary parse_rides appends for one ride
ride_record(ride, land_id, land_name, park_id) ==
    [id |-> Get(ride, "id"),
     name |-> Get(ride, "name"),
     is_open |-> GetOr(ride, "is_open", Some(FALSE)),
     wait_time |-> Get(ride, "wait_time"),
     last_updated |-> Get(ride, "last_updated"),
     land_id |-> land_id,
     land_name |-> land_name,
     park_id |-> park_id]

\* an inner loop that does not pass the land on
land_rides_no_land(land, park_id) ==
    LET rs == GetOr(land, "rides", <<>>)
    IN  [i \in 1..Len(rs) |-> ride_record(rs[i], None, None, park_id)]

\* the inner loop: the rides of one land
land_rides(land, park_id) ==
    LET rs == GetOr(land, "rides", <<>>)
    IN  [i \in 1..Len(rs) |->
            ride_record(rs[i], Get(land, "id"), Get(land, "name"), park_id)]

\* an outer loop that starts its list anew for every land
lands_rides_last_land(ls, park_id) ==
    IF ls = <<>> THEN <<>> ELSE land_rides(ls[Len(ls)], park_id)

RECURSIVE lands_rides(_, _)
\* the outer loop over api_response.get("lands", [])
lands_rides(ls, park_id) ==
    IF ls = <<>> THEN <<>>
    ELSE land_rides(Head(ls), park_id) \o lands_rides(Tail(ls), park_id)

\* the second loop over api_response.get("rides", [])
standalone_rides(api_response, park_id) ==
    LET rs == GetOr(api_response, "rides", <<>>)
    IN  [i \in 1..Len(rs) |-> ride_record(rs[i], None, None, park_id)]

\* a parse_rides that returns early when the response has no lands
parse_rides_needs_lands(api_response, park_id) ==
    IF "lands" \notin DOMAIN api_response THEN <<>>
    ELSE lands_rides(api_response.lands, park_id)
            \o standalone_rides(api_response, park_id)

\* a parse_rides that runs the loop over the top-level rides first
parse_rides_standalone_first(api_response, park_id) ==
    standalone_rides(api_response, park_id)
        \o lands_rides(GetOr(api_response, "lands", <<>>), park_id)

\* a parse_rides that keeps only the first record of each ride id
parse_rides_distinct(api_response, park_id) ==
    LET all  == lands_rides(GetOr(api_response, "lands", <<>>), park_id)
                    \o standalone_rides(api_response, park_id)
        keep == {i \in 1..Len(all) : \A j \in 1..(i - 1) : all[j].id # all[i].id}
        nth  == [k \in 1..Cardinality(keep) |->
                    CHOOSE i \in keep : Cardinality({j \in keep : j < i}) = k - 1]
    IN  [k \in 1..Cardinality(keep) |-> all[nth[k]]]

\* parse_rides: the rides of all lands, then the standalone rides
parse_rides(api_response, park_id) ==
    lands_rides(GetOr(api_response, "lands", <<>>), park_id)
        \o standalone_rides(api_response, park_id)

(***************************************************************************)
(* The remote API: the JSON bodies a park's endpoint may serve.            *)
(***************************************************************************)
\* one land with an open and a closed ride, and one standalone ride
SampleResponse ==
    [lands |-> << [id |-> Some(100), name |-> Some("Land A"),
                   rides |-> << [id |-> Some(1001), name |-> Some("Ride A"),
                                 is_open |-> Some(TRUE), wait_time |-> Some(120),
                                 last_updated |-> Some("t1")],
                                [id |-> Some(1002), name |-> Some("Ride B"),
                                 is_open |-> Some(FALSE), wait_time |-> None,
                                 last_updated |-> Some("t1")] >>] >>,
     rides |-> << [id |-> Some(2001), name |-> Some("Single Rider"),
                   is_open |-> Some(TRUE), wait_time |-> Some(0),
                   last_updated |-> Some("t1")] >>]

\* {}
EmptyResponse == [k \in {} |-> None]

\* ride 1001 again, twice, under another name and land name; a land with no
\* rides key; optional ride fields absent
RepeatResponse ==
    [lands |-> << [id |-> Some(100), name |-> Some("Land B"),
                   rides |-> << [id |-> Some(1001), name |-> Some("Ride A2")] >>],
                  [id |-> Some(101), name |-> Some("Land C")] >>,
     rides |-> << [id |-> Some(1001), name |-> Some("Ride A3"),
                   wait_time |-> Some(5)] >>]

\* a standalone ride without a name
NamelessResponse ==
    [rides |-> << [id |-> Some(3001), is_open |-> Some(TRUE),
                   wait_time |-> Some(10)] >>]

Responses == {SampleResponse, EmptyResponse, RepeatResponse, NamelessResponse}

\* a ride with every field
FullRide(id, name) ==
    [id |-> Some(id), name |-> Some(name), is_open |-> Some(TRUE),
     wait_time |-> Some(5), last_updated |-> Some("t1")]

\* a land with an empty rides list, a land with no rides key, a land with a
\* null id that has a ride, and land 104 twice, under two names
SparseLandsResponse ==
    [lands |-> << [id |-> Some(101), name |-> Some("Land C"), rides |-> <<>>],
                  [id |-> Some(102), name |-> Some("Land D")],
                  [id |-> None, name |-> Some("Land E"),
                   rides |-> << FullRide(1003, "Ride C") >>],
                  [id |-> Some(104), name |-> Some("Land F"),
                   rides |-> << FullRide(1004, "Ride D"), FullRide(1005, "Ride E") >>],
                  [id |-> Some(104), name |-> Some("Land F2"),
                   rides |-> << FullRide(1007, "Ride G") >>] >>]

\* a land without a name that has a ride
NamelessLandResponse ==
    [lands |-> << [id |-> Some(103),
                   rides |-> << FullRide(1006, "Ride F") >>] >>]

LandResponses == {SampleResponse, RepeatResponse, SparseLandsResponse,
                  NamelessLandResponse}

\* requests.get / raise_for_status failures
FailureKinds == {"Timeout", "HTTPError", "ConnectionError"}

(***************************************************************************)
(* collector.py: fetch_park_data, collect_park, collect_all_parks          *)
(***************************************************************************)
Running == {"fetch", "sleep", "return_none", "insert_park", "insert_land",
            "insert_ride", "insert_wait_time", "return_records"}
Terminal == {"exited", "traceback", "crashed"}

park == PARKS[park_idx]
ride == ride_records[ride_idx]

\* a loop that makes one attempt too many
loop_continues_once_more(a) == a <= MAX_RETRIES
\* for attempt in range(MAX_RETRIES)
loop_continues(a) == a < MAX_RETRIES
\* a backoff that also waits after the last attempt
should_sleep_always(a) == a < MAX_RETRIES
\* if attempt < MAX_RETRIES - 1
should_sleep(a) == a < MAX_RETRIES - 1
\* a linear backoff
backoff_linear(a) == 2 * a
\* wait_time = 2 ** attempt
backoff(a) == 2 ^ a
\* the except clauses: every failure kind is a RequestException
caught(kind) == kind \in {"Timeout", "HTTPError", "ConnectionError"}

\* a loop that tries again until a request succeeds
after_iteration_tries_again(a) == "fetch"

\* where the loop of fetch_park_data goes after iteration a
after_iteration(a) == IF loop_continues(a + 1) THEN "fetch" ELSE "return_none"

\* a for loop that leaves before the last ride
loop_pc_skips_last(rs, i) ==
    IF i >= Len(rs) THEN "return_records"
    ELSE IF rs[i].land_id # None THEN "insert_land"
    ELSE "insert_ride"

\* a for loop that goes to insert_ride without upserting the land
loop_pc_no_land(rs, i) ==
    IF i > Len(rs) THEN "return_records" ELSE "insert_ride"

\* where the for loop of collect_park stands with ride i next
loop_pc(rs, i) ==
    IF i > Len(rs) THEN "return_records"
    ELSE IF rs[i].land_id # None THEN "insert_land"
    ELSE "insert_ride"

snapshot(rs, wts) ==
    [ride_ids |-> Ids(rs), rides |-> get_ride_count(rs),
     wait_times |-> get_wait_time_count(wts)]

Called(op, args, raised) == [op |-> op, args |-> args, raised |-> raised]

\* a collect_park that stamps each reading with the time of writing
record_reading_now(wts, r, at) ==
    insert_wait_time(wts, r.id, r.wait_time, r.is_open, now, r.last_updated)

\* a collect_park that writes a reading only for a ride that has none yet
record_reading_first_only(wts, r, at) ==
    IF \E i \in 1..Len(wts) : Some(wts[i].ride_id) = r.id THEN wts
    ELSE insert_wait_time(wts, r.id, r.wait_time, r.is_open, at, r.last_updated)

\* collect_park's call of insert_wait_time for a parsed ride r, stamped `at`
record_reading(wts, r, at) ==
    insert_wait_time(wts, r.id, r.wait_time, r.is_open, at, r.last_updated)

\* collect_park is entered for park i: fetch_park_data starts
EnterPark(i, rs, wts) ==
    /\ park_idx' = i
    /\ attempt' = 0
    /\ sent' = 0
    /\ slept' = <<>>
    /\ data' = None
    /\ ride_records' = <<>>
    /\ ride_idx' = 1
    /\ records_inserted' = 0
    /\ before' = snapshot(rs, wts)
    /\ pc' = "fetch"

\* a collect_all_parks that stops at the first park that failed
LeavePark_stops_on_failure(records) ==
    /\ results' = (park.name :> records) @@ results
    /\ IF park_idx < Len(PARKS) /\ records >= 0
         THEN EnterPark(park_idx + 1, rides, wait_times)
         ELSE /\ pc' = "done"
              /\ UNCHANGED <<park_idx, attempt, sent, slept, data, ride_records,
                             ride_idx, records_inserted, before>>

\* a collect_all_parks that goes on with the last configured park
LeavePark_jumps_to_last(records) ==
    /\ results' = (park.name :> records) @@ results
    /\ IF park_idx < Len(PARKS)
         THEN EnterPark(Len(PARKS), rides, wait_times)
         ELSE /\ pc' = "done"
              /\ UNCHANGED <<park_idx, attempt, sent, slept, data, ride_records,
                             ride_idx, records_inserted, before>>

\* collect_park returned `records` to collect_all_parks
LeavePark(records) ==
    /\ results' = (park.name :> records) @@ results
    /\ IF park_idx < Len(PARKS)
         THEN EnterPark(park_idx + 1, rides, wait_times)
         ELSE /\ pc' = "done"
              /\ UNCHANGED <<park_idx, attempt, sent, slept, data, ride_records,
                             ride_idx, records_inserted, before>>

\* main -> collect_all_parks: timestamp, init_database, first park
StartRun ==
    /\ pc = "idle"
    /\ collected_at' = now
    /\ schema' = init_database(schema)
    /\ call' = Called("init_database", <<>>, "none")
    /\ results' = <<>>
    /\ served' = <<>>
    /\ EnterPark(1, rides, wait_times)
    /\ UNCHANGED <<exit_status, printed, earlier, parks, lands, rides, wait_times, now>>

\* requests.get returns a 2xx response: return response.json()
RequestOk(response) ==
    /\ pc = "fetch"
    /\ sent' = sent + 1
    /\ data' = Some(response)
    /\ served' = Append(served, Some(response))
    /\ pc' = "insert_park"
    /\ UNCHANGED <<exit_status, printed, earlier, store, call, now, collected_at, results, park_idx, attempt,
                   slept, ride_records, ride_idx, records_inserted, before>>

\* requests.get or raise_for_status raises
RequestFails(kind) ==
    /\ pc = "fetch"
    /\ sent' = sent + 1
    /\ IF ~caught(kind)
         THEN pc' = "aborted" /\ attempt' = attempt
         ELSE IF should_sleep(attempt)
                THEN pc' = "sleep" /\ attempt' = attempt
                ELSE pc' = after_iteration(attempt) /\ attempt' = attempt + 1
    /\ UNCHANGED <<exit_status, printed, earlier, store, call, now, collected_at, results, park_idx, slept, data,
                   ride_records, ride_idx, records_inserted, served, before>>

\* time.sleep(wait_time)
Sleep ==
    /\ pc = "sleep"
    /\ slept' = Append(slept, backoff(attempt))
    /\ now' = now + backoff(attempt)
    /\ attempt' = attempt + 1
    /\ pc' = after_iteration(attempt)
    /\ UNCHANGED <<exit_status, printed, earlier, store, call, collected_at, results, park_idx, sent, data,
                   ride_records, ride_idx, records_inserted, served, before>>

\* a collect_park that upserts the park before it looks at the fetched data
ReturnNone_after_upsert ==
    /\ pc = "return_none"
    /\ served' = Append(served, None)
    /\ parks' = insert_park(parks, Some(park.id), Some(park.name))
    /\ call' = Called("insert_park", <<Some(park.id), Some(park.name)>>, "none")
    /\ LeavePark(-1)
    /\ UNCHANGED <<exit_status, printed, earlier, schema, lands, rides, wait_times,
                   now, collected_at>>

\* fetch_park_data returns None, collect_park returns -1
ReturnNone ==
    /\ pc = "return_none"
    /\ served' = Append(served, None)
    /\ LeavePark(-1)
    /\ UNCHANGED <<exit_status, printed, earlier, store, call, now, collected_at>>

\* insert_park(park_id, park_name); rides = parse_rides(data, park_id)
InsertPark ==
    /\ pc = "insert_park"
    /\ LET raised == insert_park_raises(schema, parks, Some(park.id), Some(park.name))
       IN  /\ call' = Called("insert_park", <<Some(park.id), Some(park.name)>>, raised)
           /\ IF raised # "none"
                THEN /\ pc' = "aborted"
                     /\ UNCHANGED <<parks, ride_records>>
                ELSE /\ parks' = insert_park(parks, Some(park.id), Some(park.name))
                     /\ ride_records' = parse_rides(Val(data), park.id)
                     /\ pc' = loop_pc(ride_records', 1)
    /\ UNCHANGED <<exit_status, printed, earlier, schema, lands, rides, wait_times, now, collected_at, results,
                   park_idx, attempt, sent, slept, data, ride_idx,
                   records_inserted, served, before>>

\* insert_land(ride["land_id"], park_id, ride["land_name"])
InsertLand ==
    /\ pc = "insert_land"
    /\ LET raised == insert_land_raises(schema, parks, lands, ride.land_id,
                                        Some(park.id), ride.land_name)
       IN  /\ call' = Called("insert_land",
                             <<ride.land_id, Some(park.id), ride.land_name>>, raised)
           /\ IF raised # "none"
                THEN pc' = "aborted" /\ UNCHANGED lands
                ELSE /\ lands' = insert_land(lands, ride.land_id, Some(park.id),
                                             ride.land_name)
                     /\ pc' = "insert_ride"
    /\ UNCHANGED <<exit_status, printed, earlier, schema, parks, rides, wait_times, now, collected_at, results,
                   park_idx, attempt, sent, slept, data, ride_records, ride_idx,
                   records_inserted, served, before>>

\* insert_ride(ride_id, park_id, name, land_id)
InsertRide ==
    /\ pc = "insert_ride"
    /\ LET raised == insert_ride_raises(schema, parks, lands, rides, ride.id,
                                        Some(park.id), ride.name, ride.land_id)
       IN  /\ call' = Called("insert_ride",
                             <<ride.id, Some(park.id), ride.name, ride.land_id>>, raised)
           /\ IF raised # "none"
                THEN pc' = "aborted" /\ UNCHANGED rides
                ELSE /\ rides' = insert_ride(rides, ride.id, Some(park.id),
                                             ride.name, ride.land_id)
                     /\ pc' = "insert_wait_time"
    /\ UNCHANGED <<exit_status, printed, earlier, schema, parks, lands, wait_times, now, collected_at, results,
                   park_idx, attempt, sent, slept, data, ride_records, ride_idx,
                   records_inserted, served, before>>

\* a loop body that catches the exception of insert_wait_time and goes on
\* with the next ride
InsertWaitTime_catches ==
    /\ pc = "insert_wait_time"
    /\ LET raised == insert_wait_time_raises(schema, rides, ride.id, ride.is_open)
       IN  /\ call' = Called("insert_wait_time",
                             <<ride.id, ride.wait_time, ride.is_open,
                               Some(collected_at), ride.last_updated>>, raised)
           /\ wait_times' = IF raised # "none" THEN wait_times
                             ELSE record_reading(wait_times, ride, collected_at)
           /\ records_inserted' = IF raised # "none" THEN records_inserted
                                   ELSE records_inserted + 1
           /\ ride_idx' = ride_idx + 1
           /\ pc' = loop_pc(ride_records, ride_idx + 1)
    /\ UNCHANGED <<exit_status, printed, earlier, schema, parks, lands, rides, now,
                   collected_at, results, park_idx, attempt, sent, slept, data,
                   ride_records, served, before>>

\* insert_wait_time(...); records_inserted += 1; next ride
InsertWaitTime ==
    /\ pc = "insert_wait_time"
    /\ LET raised == insert_wait_time_raises(schema, rides, ride.id, ride.is_open)
       IN  /\ call' = Called("insert_wait_time",
                             <<ride.id, ride.wait_time, ride.is_open,
                               Some(collected_at), ride.last_updated>>, raised)
           /\ IF raised # "none"
                THEN /\ pc' = "aborted"
                     /\ UNCHANGED <<wait_times, records_inserted, ride_idx>>
                ELSE /\ wait_times' = record_reading(wait_times, ride, collected_at)
                     /\ records_inserted' = records_inserted + 1
                     /\ ride_idx' = ride_idx + 1
                     /\ pc' = loop_pc(ride_records, ride_idx + 1)
    /\ UNCHANGED <<exit_status, printed, earlier, schema, parks, lands, rides, now, collected_at, results,
                   park_idx, attempt, sent, slept, data, ride_records, served,
                   before>>

\* return records_inserted
ReturnRecords ==
    /\ pc = "return_records"
    /\ LeavePark(records_inserted)
    /\ UNCHANGED <<exit_status, printed, earlier, store, call, now, collected_at, served>>

\* a kill after which the rides and readings of the park in progress are
\* rolled back
Crash_rolls_back ==
    /\ pc \in Running
    /\ pc' = "crashed"
    /\ rides' = {r \in rides : r.id \in before.ride_ids}
    /\ wait_times' = SubSeq(wait_times, 1, before.wait_times)
    /\ UNCHANGED <<exit_status, printed, earlier, schema, parks, lands, call, now,
                   collected_at, results, park_idx, attempt, sent, slept, data,
                   ride_records, ride_idx, records_inserted, served, before>>

\* the process is killed between two steps
Crash ==
    /\ pc \in Running
    /\ pc' = "crashed"
    /\ UNCHANGED <<exit_status, printed, earlier, store, call, now, collected_at, results, park_idx, attempt,
                   sent, slept, data, ride_records, ride_idx, records_inserted,
                   served, before>>

\* the store writes collect_park makes for one parsed ride, none of them raising
write_ride(db, r, park_id, at) ==
    [db EXCEPT
        !.lands = IF r.land_id # None
                    THEN insert_land(@, r.land_id, Some(park_id), r.land_name)
                    ELSE @,
        !.rides = insert_ride(@, r.id, Some(park_id), r.name, r.land_id),
        !.wait_times = record_reading(@, r, at)]

RECURSIVE write_rides(_, _, _, _)
write_rides(db, rs, park_id, at) ==
    IF rs = <<>> THEN db
    ELSE write_rides(write_ride(db, Head(rs), park_id, at), Tail(rs), park_id, at)

\* the store after collect_park(p) fetched `response` in a run stamped `at`
collected(db, response, p, at) ==
    write_rides([db EXCEPT !.parks = insert_park(@, Some(p.id), Some(p.name))],
                parse_rides(response, p.id), p.id, at)

\* no database file yet
FreshStore ==
    [schema |-> {}, parks |-> {}, lands |-> {}, rides |-> {}, wait_times |-> <<>>]

\* left by a run on the Saturday before, in which the first park served the
\* sample response and the other parks could not be fetched
EarlierRunStore ==
    collected([FreshStore EXCEPT !.schema = init_database(@)], SampleResponse,
              PARKS[1], Saturday1200)

\* left by a run on the Saturday before that was killed in the first park,
\* after insert_ride of the first ride and before its insert_wait_time
KilledRunStore ==
    LET r == parse_rides(SampleResponse, PARKS[1].id)[1]
        p == PARKS[1]
    IN  [FreshStore EXCEPT
            !.schema = init_database(@),
            !.parks = insert_park(@, Some(p.id), Some(p.name)),
            !.lands = insert_land(@, r.land_id, Some(p.id), r.land_name),
            !.rides = insert_ride(@, r.id, Some(p.id), r.name, r.land_id)]

PriorStores == {FreshStore, EarlierRunStore, KilledRunStore}

\* a main that reports failure only when every park failed
exit_code_all_failed(res) == IF \A k \in DOMAIN res : res[k] < 0 THEN 1 ELSE 0

\* main: sys.exit(1) if any outcome is negative, else the normal exit status 0
exit_code(res) == IF \E k \in DOMAIN res : res[k] < 0 THEN 1 ELSE 0

\* main without --check: collect_all_parks returned its result map
MainExits ==
    /\ pc = "done"
    /\ exit_status' = Some(exit_code(results))
    /\ pc' = "exited"
    /\ UNCHANGED <<store, call, now, collected_at, results, park_idx, attempt,
                   sent, slept, data, ride_records, ride_idx, records_inserted,
                   served, before, printed, earlier>>

\* the exception of a store call is caught nowhere: the interpreter prints
\* the traceback and exits with status 1
Traceback ==
    /\ pc = "aborted"
    /\ exit_status' = Some(1)
    /\ pc' = "traceback"
    /\ UNCHANGED <<store, call, now, collected_at, results, park_idx, attempt,
                   sent, slept, data, ride_records, ride_idx, records_inserted,
                   served, before, printed, earlier>>

\* the Monday after, 14:30:00
StartTime == Monday1430 + 7 * 86400

IdleCollector ==
    /\ pc = "idle"
    /\ collected_at = now
    /\ results = <<>>
    /\ park_idx = 1
    /\ attempt = 0
    /\ sent = 0
    /\ slept = <<>>
    /\ data = None
    /\ ride_records = <<>>
    /\ ride_idx = 1
    /\ records_inserted = 0
    /\ served = <<>>
    /\ before = snapshot(rides, wait_times)
    /\ exit_status = None
    /\ printed = None
    /\ earlier = None

Init ==
    /\ now = StartTime
    /\ \E db \in PriorStores :
          /\ schema = db.schema
          /\ parks = db.parks
          /\ lands = db.lands
          /\ rides = db.rides
          /\ wait_times = db.wait_times
    /\ call = Called("none", <<>>, "none")
    /\ IdleCollector

Next ==
    \/ StartRun
    \/ \E response \in Responses : RequestOk(response)
    \/ \E kind \in FailureKinds : RequestFails(kind)
    \/ Sleep
    \/ ReturnNone
    \/ InsertPark
    \/ InsertLand
    \/ InsertRide
    \/ InsertWaitTime
    \/ ReturnRecords
    \/ MainExits
    \/ Traceback
    \/ Crash

Spec == Init /\ [][Next]_vars

(***************************************************************************)
(* Two runs in a row: the scheduler starts the collector again after the   *)
(* first run returned, and the parks serve what they served before.        *)
(***************************************************************************)
\* what a completed run leaves behind
left_by_run ==
    [served |-> served, parks |-> parks, lands |-> lands, rides |-> rides,
     readings |-> get_wait_time_count(wait_times),
     grown |-> Len(SelectSeq(wait_times, LAMBDA w : w.collected_at = collected_at))]

\* the next scheduled run: main -> collect_all_parks, one interval later
RunAgain ==
    /\ pc = "done"
    /\ earlier = None
    /\ \A n \in 1..Len(served) : served[n] # None
    /\ earlier' = Some(left_by_run)
    /\ now' = now + 60 * COLLECTION_INTERVAL_MINUTES
    /\ collected_at' = now'
    /\ schema' = init_database(schema)
    /\ call' = Called("init_database", <<>>, "none")
    /\ results' = <<>>
    /\ served' = <<>>
    /\ EnterPark(1, rides, wait_times)
    /\ UNCHANGED <<parks, lands, rides, wait_times, exit_status, printed>>

\* requests.get succeeds at once; in the second run with the response of
\* the first run
SameRequestOk(response) ==
    /\ earlier # None => Val(earlier).served[park_idx] = Some(response)
    /\ RequestOk(response)

TwiceNext ==
    \/ StartRun
    \/ \E response \in Responses : SameRequestOk(response)
    \/ InsertPark
    \/ InsertLand
    \/ InsertRide
    \/ InsertWaitTime
    \/ ReturnRecords
    \/ RunAgain

TwiceSpec == Init /\ [][TwiceNext]_vars

(***************************************************************************)
(* A collection run whose parks serve responses that differ in their       *)
(* lands.                                                                  *)
(***************************************************************************)
LandsNext ==
    \/ StartRun
    \/ \E response \in LandResponses : RequestOk(response)
    \/ InsertPark
    \/ InsertLand
    \/ InsertRide
    \/ InsertWaitTime
    \/ ReturnRecords
    \/ MainExits
    \/ Traceback

LandsSpec == Init /\ [][LandsNext]_vars

\* the steps of a process that is not killed
Advance ==
    \/ StartRun
    \/ \E response \in Responses : RequestOk(response)
    \/ \E kind \in FailureKinds : RequestFails(kind)
    \/ Sleep
    \/ ReturnNone
    \/ InsertPark
    \/ InsertLand
    \/ InsertRide
    \/ InsertWaitTime
    \/ ReturnRecords
    \/ MainExits
    \/ Traceback

\* a process that is not killed goes on: every request returns or raises
\* within REQUEST_TIMEOUT, every sleep and every store call returns
FairSpec == Init /\ [][Advance]_vars /\ WF_vars(Advance)

(***************************************************************************)
(* The store operations called directly, in any order and with any         *)
(* arguments (as tests/test_database.py does).                             *)
(***************************************************************************)
ParkIdArgs == {Some(PARKS[1].id)}
ParkNameArgs == {None, Some(PARKS[1].name), Some(PARKS[2].name)}
LandIdArgs == {Some(100)}
LandNameArgs == {None, Some("Land A"), Some("Land B")}
RideIdArgs == {None, Some(1001)}
RideNameArgs == {None, Some("Ride A")}
RideLandArgs == {None, Some(100)}
\* wait_time, is_open, collected_at, api_last_updated
ReadingArgs == { <<Some(120), Some(TRUE), Monday1430, Some("t1")>>,
                 <<None, Some(FALSE), Saturday1200, None>> }

\* an init_database that drops the tables before it creates them
CallInitDatabase_recreate ==
    /\ schema' = AllSchema
    /\ call' = Called("init_database", <<>>, "none")
    /\ parks' = {}
    /\ lands' = {}
    /\ rides' = {}
    /\ wait_times' = <<>>
    /\ UNCHANGED <<now, collector>>

\* init_database()
CallInitDatabase ==
    /\ schema' = init_database(schema)
    /\ call' = Called("init_database", <<>>, "none")
    /\ UNCHANGED <<parks, lands, rides, wait_times, now, collector>>

CallInsertPark(park_id, name) ==
    LET raised == insert_park_raises(schema, parks, park_id, name)
    IN  /\ call' = Called("insert_park", <<park_id, name>>, raised)
        /\ parks' = IF raised = "none" THEN insert_park(parks, park_id, name) ELSE parks
        /\ UNCHANGED <<schema, lands, rides, wait_times, now, collector>>

CallInsertLand(land_id, park_id, name) ==
    LET raised == insert_land_raises(schema, parks, lands, land_id, park_id, name)
    IN  /\ call' = Called("insert_land", <<land_id, park_id, name>>, raised)
        /\ lands' = IF raised = "none"
                      THEN insert_land(lands, land_id, park_id, name) ELSE lands
        /\ UNCHANGED <<schema, parks, rides, wait_times, now, collector>>

CallInsertRide(ride_id, park_id, name, land_id) ==
    LET raised == insert_ride_raises(schema, parks, lands, rides, ride_id, park_id,
                                     name, land_id)
    IN  /\ ride_id = None => Cardinality(rides) < MaxAutoRows
        /\ call' = Called("insert_ride", <<ride_id, park_id, name, land_id>>, raised)
        /\ rides' = IF raised = "none"
                      THEN insert_ride(rides, ride_id, park_id, name, land_id)
                      ELSE rides
        /\ UNCHANGED <<schema, parks, lands, wait_times, now, collector>>

CallInsertWaitTime(ride_id, a) ==
    LET raised == insert_wait_time_raises(schema, rides, ride_id, a[2])
    IN  /\ Len(wait_times) < MaxReadings
        /\ call' = Called("insert_wait_time",
                          <<ride_id, a[1], a[2], Some(a[3]), a[4]>>, raised)
        /\ wait_times' = IF raised = "none"
                           THEN insert_wait_time(wait_times, ride_id, a[1], a[2],
                                                 a[3], a[4])
                           ELSE wait_times
        /\ UNCHANGED <<schema, parks, lands, rides, now, collector>>

\* a status report that counts the configured parks where it should count
\* the rides
status_report_parks_for_rides(rs, wts) ==
    [parks |-> Len(PARKS), rides |-> Len(PARKS),
     wait_times |-> get_wait_time_count(wts)]

\* check_status: the three counts it prints
status_report(rs, wts) ==
    [parks |-> Len(PARKS), rides |-> get_ride_count(rs),
     wait_times |-> get_wait_time_count(wts)]

\* main --check: check_status()
CallCheckStatus ==
    /\ schema' = init_database(schema)
    /\ printed' = Some(status_report(rides, wait_times))
    /\ call' = Called("check_status", <<>>, "none")
    /\ UNCHANGED <<parks, lands, rides, wait_times, now, pc, collected_at, results,
                   park_idx, attempt, sent, slept, data, ride_records, ride_idx,
                   records_inserted, served, before, exit_status, earlier>>

StoreInit ==
    /\ now = StartTime
    /\ schema = {}
    /\ parks = {}
    /\ lands = {}
    /\ rides = {}
    /\ wait_times = <<>>
    /\ call = Called("none", <<>>, "none")
    /\ IdleCollector

StoreNext ==
    \/ CallInitDatabase
    \/ \E park_id \in ParkIdArgs, name \in ParkNameArgs : CallInsertPark(park_id, name)
    \/ \E land_id \in LandIdArgs, park_id \in ParkIdArgs, name \in LandNameArgs :
          CallInsertLand(land_id, park_id, name)
    \/ \E ride_id \in RideIdArgs, park_id \in ParkIdArgs, name \in RideNameArgs,
          land_id \in RideLandArgs : CallInsertRide(ride_id, park_id, name, land_id)
    \/ \E ride_id \in RideIdArgs, a \in ReadingArgs : CallInsertWaitTime(ride_id, a)

StoreSpec == StoreInit /\ [][StoreNext]_vars

\* main --check run at any moment of the store's history; the history is
\* followed up to the status check
CheckNext ==
    \/ printed = None /\ StoreNext
    \/ CallCheckStatus

CheckSpec == StoreInit /\ [][CheckNext]_vars

(***************************************************************************)
(* parse_rides called on its own, as tests/test_collector.py does, with    *)
(* every response made of the ride dictionaries below.                     *)
(***************************************************************************)
\* ride r of a rides list has id 1000 + r, so that an id occurs once in a
\* list and again in the other lists; a "bare" ride has a null wait_time and
\* neither name, is_open nor last_updated
RideKinds == {"full", "bare"}
RideDict(r, kind) ==
    IF kind = "full"
      THEN [id |-> Some(1000 + r), name |-> Some(<<"Ride", r>>),
            is_open |-> Some(TRUE), wait_time |-> Some(120),
            last_updated |-> Some("t1")]
      ELSE [id |-> Some(1000 + r), wait_time |-> None]

SeqsUpTo(S, n) == UNION {[1..k -> S] : k \in 0..n}

\* the top-level rides lists: every list of up to MaxListed rides
TopLists ==
    { [r \in 1..Len(ks) |-> RideDict(r, ks[r])] : ks \in SeqsUpTo(RideKinds, MaxListed) }

\* the rides list of a land with n rides, full and bare in turn
LandList(n) == [r \in 1..n |-> RideDict(r, IF r % 2 = 1 THEN "full" ELSE "bare")]

\* the rides of a land; None stands for a land without "rides" key
LandRides == {None} \cup {Some(LandList(n)) : n \in 0..MaxListed}

\* land k of a response has id 99 + k
LandDict(k, rl) ==
    LET named == [id |-> Some(99 + k), name |-> Some(<<"Land", k>>)]
    IN  IF rl = None THEN named ELSE ("rides" :> Val(rl)) @@ named

\* the response with the lands `ll` and the top-level rides `top`, each None
\* when the key is absent
ResponseOf(ll, top) ==
    ( IF ll = None THEN EmptyResponse
      ELSE ("lands" :> [k \in 1..Len(Val(ll)) |-> LandDict(k, Val(ll)[k])]) )
    @@ ( IF top = None THEN EmptyResponse ELSE ("rides" :> Val(top)) )

ParseResponses ==
    { ResponseOf(ll, top) :
        ll \in {None} \cup {Some(x) : x \in SeqsUpTo(LandRides, MaxLands)},
        top \in {None} \cup {Some(rl) : rl \in TopLists} }

\* rides = parse_rides(response, park_id)
CallParseRides(response, i) ==
    /\ pc = "idle"
    /\ data' = Some(response)
    /\ park_idx' = i
    /\ ride_records' = parse_rides(response, PARKS[i].id)
    /\ pc' = "parsed"
    /\ UNCHANGED <<store, call, now, collected_at, results, attempt, sent, slept,
                   ride_idx, records_inserted, served, before, exit_status,
                   printed, earlier>>

ParseNext ==
    /\ pc = "idle"
    /\ \E response \in ParseResponses, i \in 1..Len(PARKS) :
          CallParseRides(response, i)

ParseSpec == StoreInit /\ [][ParseNext]_vars

(***************************************************************************)
(* Properties                                                              *)
(***************************************************************************)
UpsertOps == {"insert_park", "insert_land", "insert_ride"}
TableOf(op) ==
    IF op = "insert_park" THEN parks ELSE IF op = "insert_land" THEN lands ELSE rides
UniqueIds(table) == \A r1, r2 \in table : r1.id = r2.id => r1 = r2
\* the row an upsert call asks for
AskedRow(c) ==
    IF c.op = "insert_park" THEN [id |-> Val(c.args[1]), name |-> Val(c.args[2])]
    ELSE IF c.op = "insert_land"
      THEN [id |-> Val(c.args[1]), park_id |-> Val(c.args[2]), name |-> Val(c.args[3])]
    ELSE [id |-> Val(c.args[1]), land_id |-> c.args[4], park_id |-> Val(c.args[2]),
          name |-> Val(c.args[3])]

C1_Step ==
    /\ parks \subseteq parks' /\ lands \subseteq lands' /\ rides \subseteq rides'
    /\ call'.op \in UpsertOps /\ call'.args[1] # None =>
         LET t == TableOf(call'.op)
             added == (parks' \ parks) \cup (lands' \ lands) \cup (rides' \ rides)
         IN  /\ Val(call'.args[1]) \in Ids(t) =>
                  call'.raised = "none" /\ added = {}
             /\ added = {} \/ added = {AskedRow(call')}

\* C1: after any sequence of insert_park / insert_land / insert_ride calls each
\* table holds at most one row per id; a row, once stored, never changes; a row
\* is stored with the attributes of the call that first inserted its id; and a
\* later call with a stored id changes nothing and raises no error.
C1_IdempotentUpsert ==
    /\ [](UniqueIds(parks) /\ UniqueIds(lands) /\ UniqueIds(rides))
    /\ [][C1_Step]_vars

\* a second insert_park of a stored id with another name has returned
C1_Witness ==
    /\ call.op = "insert_park" /\ call.raised = "none"
    /\ call.args[2] # None
    /\ \E r \in parks : r.id = Val(call.args[1]) /\ r.name # Val(call.args[2])

\* C2: in every reachable state every wait_times row's ride_id is the id of a
\* row of table rides.
C2_ReadingsReferenceRides ==
    \A i \in 1..Len(wait_times) : wait_times[i].ride_id \in Ids(rides)

\* the process was killed between two store operations of a park that had
\* already written a reading
C2_Witness ==
    /\ pc = "crashed"
    /\ call.op = "insert_ride"
    /\ Len(wait_times) > before.wait_times

\* C3: insert_wait_time for a ride_id that table rides does not hold raises
\* IntegrityError and leaves every table as it was.
C3_MissingRideRejected ==
    [][ ( /\ call'.op = "insert_wait_time"
          /\ "wait_times" \in schema
          /\ call'.args[1] # None
          /\ Val(call'.args[1]) \notin Ids(rides) )
        => /\ call'.raised = "IntegrityError"
           /\ wait_times' = wait_times
           /\ Len(wait_times') = Len(wait_times)
           /\ UNCHANGED <<schema, parks, lands, rides>> ]_vars

\* insert_wait_time was called for a ride id that is not stored, and raised
C3_Witness ==
    /\ call.op = "insert_wait_time"
    /\ call.raised = "IntegrityError"
    /\ "wait_times" \in schema
    /\ call.args[1] # None /\ call.args[3] # None
    /\ Val(call.args[1]) \notin Ids(rides)
    /\ parks # {}

\* positions of collect_park after fetch_park_data returned a response
AfterFetch == {"insert_park", "insert_land", "insert_ride", "insert_wait_time",
               "return_records"}

C4_State ==
    /\ sent <= 3
    /\ pc \in {"fetch", "sleep"} =>
          /\ data = None
          /\ sent = attempt + (IF pc = "sleep" THEN 1 ELSE 0)
    /\ pc = "return_none" => sent = 3 /\ data = None
    /\ pc \in AfterFetch =>
          /\ data # None /\ data = served[Len(served)]
          /\ sent = attempt + 1

C4_Step ==
    /\ sent' # sent =>
          \/ pc = "fetch" /\ sent' = sent + 1
          \/ pc' = "fetch" /\ sent' = 0 /\ attempt' = 0
    /\ pc = "fetch" /\ sent' = sent + 1 /\ data' = None =>
          /\ pc' \in {"sleep", "fetch", "return_none"}
          /\ pc' = "return_none" <=> sent' = 3
    /\ pc = "fetch" /\ data' # None =>
          /\ pc' = "insert_park"
          /\ \E response \in Responses : data' = Some(response)

\* C4: fetch_park_data issues at most 3 requests; it returns None only after
\* exactly 3 attempts that all failed; the first attempt that succeeds ends it
\* with that response and no further request; a failed attempt of any kind
\* stays inside the retry loop.
C4_FetchAttempts == []C4_State /\ [][C4_Step]_vars

\* the third attempt of a fetch succeeded
C4_Witness == pc = "insert_park" /\ sent = 3 /\ attempt = 2

C6_State ==
    /\ pc = "sleep" => data = None /\ sent < 3 /\ Len(slept) = sent - 1
    /\ pc = "fetch" => Len(slept) = sent
    /\ pc = "return_none" => Len(slept) = sent - 1
    /\ pc \in AfterFetch => Len(slept) = sent - 1

\* C6: a backoff wait happens only between a failed attempt and the next
\* attempt: none after the third failed attempt, none after a successful one.
C6_NoWaitAfterLastAttempt ==
    /\ []C6_State
    /\ [][Len(slept') > Len(slept) => pc = "sleep" /\ pc' = "fetch"]_vars

\* a fetch gave up after its third failed attempt, having waited twice
C6_Witness == pc = "return_none" /\ sent = 3 /\ Len(slept) = 2 /\ park_idx = 2

RECURSIVE ExpectedReadings(_)
\* ride ids of the readings the parks 1..n of this run should have written
ExpectedReadings(n) ==
    IF n = 0 THEN <<>>
    ELSE ExpectedReadings(n - 1) \o
         ( IF served[n] = None THEN <<>>
           ELSE LET rs == parse_rides(Val(served[n]), PARKS[n].id)
                IN  [k \in 1..Len(rs) |-> Val(rs[k].id)] )

\* the ride ids of the readings stamped with this run's collected_at
RunReadings ==
    LET w == SelectSeq(wait_times, LAMBDA r : r.collected_at = collected_at)
    IN  [k \in 1..Len(w) |-> w[k].ride_id]

C7_Done ==
    pc = "done" =>
      /\ Len(served) = Len(PARKS)
      /\ DOMAIN results = {PARKS[i].name : i \in 1..Len(PARKS)}
      /\ \A i \in 1..Len(PARKS) :
            IF served[i] = None THEN results[PARKS[i].name] = -1
            ELSE results[PARKS[i].name] =
                    Len(parse_rides(Val(served[i]), PARKS[i].id))
      /\ RunReadings = ExpectedReadings(Len(PARKS))
      /\ \A k \in 1..Len(RunReadings) : RunReadings[k] \in Ids(rides)

C7_Step ==
    pc = "return_none" /\ pc' # "crashed" =>
      /\ results' = (park.name :> -1) @@ results
      /\ UNCHANGED <<schema, parks, lands, rides, wait_times>>
      /\ IF park_idx < Len(PARKS)
           THEN pc' = "fetch" /\ park_idx' = park_idx + 1
           ELSE pc' = "done"

\* C7: a park whose fetch failed gets outcome -1 and the run goes on with the
\* next park; in the result map of a completed run every park has its outcome,
\* and the readings of the run are exactly those of all rides of all parks
\* that were fetched, before and after the failed ones.
C7_FailureIsolated == []C7_Done /\ [][C7_Step]_vars

\* a completed run whose second park failed, with readings of the first and
\* of the third park stored
C7_Witness ==
    /\ pc = "done"
    /\ served[2] = None /\ served[1] # None /\ served[3] # None
    /\ results[PARKS[1].name] > 0 /\ results[PARKS[3].name] > 0

\* C8: every reading written during a run carries the collected_at captured
\* when the run started, before its first fetch, whatever time has passed in
\* retries and waits since.
C8_SharedTimestamp ==
    [][ /\ pc = "idle" => collected_at' = now /\ sent' = 0 /\ pc' = "fetch"
        /\ pc # "idle" => collected_at' = collected_at
        /\ Len(wait_times') > Len(wait_times) =>
              /\ pc # "idle"
              /\ wait_times'[Len(wait_times')].collected_at = collected_at
              /\ \A i \in 1..Len(wait_times) :
                    wait_times[i].collected_at = collected_at
                      <=> i > Len(wait_times) - Len(RunReadings) ]_vars

\* a later park wrote its readings after an earlier park's waits moved the
\* clock: they carry the run's timestamp, not the time of writing
C8_Witness ==
    /\ pc = "return_records" /\ park_idx = 3 /\ records_inserted > 1
    /\ slept = <<>> /\ now > collected_at
    /\ results[PARKS[1].name] > 0
    /\ \A i \in 1..Len(RunReadings) :
          wait_times[Len(wait_times) + 1 - i].collected_at = collected_at

\* C9: when collect_park has fetched a response and no write has failed, the
\* count it returns is the length of parse_rides of the response and the
\* number of rows it appended to wait_times.
C9_ReturnedCount ==
    /\ [](pc = "return_records" =>
            /\ records_inserted >= 0
            /\ records_inserted = Len(parse_rides(Val(data), park.id))
            /\ get_wait_time_count(wait_times) = before.wait_times + records_inserted)
    /\ [][pc = "return_records" /\ pc' # "crashed" =>
            /\ park.name \in DOMAIN results'
            /\ results'[park.name] = records_inserted]_vars

\* collect_park is about to return 3 on a store that already held readings
C9_Witness ==
    /\ pc = "return_records" /\ records_inserted = 3
    /\ before.wait_times > 0 /\ Len(wait_times) = before.wait_times + 3

\* the ride ids a response holds, in lands and standalone
ResponseRideIds(response) ==
    LET ls == GetOr(response, "lands", <<>>)
        top == GetOr(response, "rides", <<>>)
        of(rs) == {Val(rs[k].id) : k \in {j \in 1..Len(rs) : Get(rs[j], "id") # None}}
    IN  UNION {of(GetOr(ls[i], "rides", <<>>)) : i \in 1..Len(ls)} \cup of(top)

\* C10: after a collect_park without failure the ride count has grown by the
\* number of distinct ride ids of the response that were not stored before.
C10_RideCountGrowth ==
    pc = "return_records" =>
        get_ride_count(rides) =
            before.rides + Cardinality(ResponseRideIds(Val(data)) \ before.ride_ids)

\* a response with three distinct rides, one of them stored before, added two
C10_Witness ==
    /\ pc = "return_records"
    /\ Cardinality(ResponseRideIds(Val(data))) = 3
    /\ Cardinality(ResponseRideIds(Val(data)) \cap before.ride_ids) = 1
    /\ get_ride_count(rides) = before.rides + 2

C12_AppendOnly ==
    [][ /\ get_wait_time_count(wait_times') >= get_wait_time_count(wait_times)
        /\ SubSeq(wait_times', 1, Len(wait_times)) = wait_times
        /\ (call'.op = "insert_wait_time" /\ call'.raised = "none")
              => /\ Len(wait_times') = Len(wait_times) + 1
                 /\ wait_times'[Len(wait_times')].ride_id = Val(call'.args[1])
                 /\ wait_times'[Len(wait_times')].collected_at = Val(call'.args[4])
        /\ (call'.op # "insert_wait_time" \/ call'.raised # "none")
              => wait_times' = wait_times ]_vars

\* two successful insert_wait_time calls for the same ride with the same
\* collected_at left two rows
C12_Witness ==
    /\ call.op = "insert_wait_time"
    /\ call.raised = "none"
    /\ Len(wait_times) = 2
    /\ wait_times[1].ride_id = wait_times[2].ride_id
    /\ wait_times[1].collected_at = wait_times[2].collected_at
    /\ wait_times[1].id # wait_times[2].id

\* The rides of a response by position: <<l, r>> is ride r of land l, and
\* <<0, r>> is top-level ride r.
LandsOf(response) == IF "lands" \in DOMAIN response THEN response.lands ELSE <<>>
RidesOf(obj) == IF "rides" \in DOMAIN obj THEN obj.rides ELSE <<>>
NestedAt(response) ==
    UNION { {<<l, r>> : r \in 1..Len(RidesOf(LandsOf(response)[l]))} :
            l \in 1..Len(LandsOf(response)) }
TopAt(response) == {<<0, r>> : r \in 1..Len(RidesOf(response))}
RideAt(response, p) ==
    IF p[1] = 0 THEN RidesOf(response)[p[2]]
    ELSE RidesOf(LandsOf(response)[p[1]])[p[2]]

\* how often ride id `id` occurs in the responses fetched in this run
RunOccurrences(id) ==
    Cardinality(
      UNION { {<<n, p>> : p \in {q \in NestedAt(Val(served[n])) \cup TopAt(Val(served[n])) :
                                   "id" \in DOMAIN RideAt(Val(served[n]), q)
                                   /\ RideAt(Val(served[n]), q).id = Some(id)}} :
              n \in {m \in 1..Len(served) : served[m] # None} })

\* the reading rows of ride `id` stamped with this run's collected_at
RunRows(id) ==
    {i \in 1..Len(wait_times) : /\ wait_times[i].ride_id = id
                                /\ wait_times[i].collected_at = collected_at}

Completed == pc \in {"done", "exited"}

\* C13 as stated: after a completed run there is at most one reading row for
\* every ride id and collected_at, whatever the responses were.
C13_OneRowPerRidePerRun ==
    Completed =>
       \A i, j \in 1..Len(wait_times) :
          ( /\ wait_times[i].ride_id = wait_times[j].ride_id
            /\ wait_times[i].collected_at = wait_times[j].collected_at ) => i = j

\* C13, amended: after a completed run the reading table holds one row per
\* parsed ride record of the run: for every ride id the number of rows with
\* the run's collected_at is the number of times the id occurs, in a land or
\* at top level, in the responses fetched in the run; so there is at most
\* one row when the id occurs once, and one row per occurrence otherwise.
C13_OneRowPerRideRecord ==
    Completed =>
       /\ \A i \in 1..Len(wait_times) :
             wait_times[i].collected_at = collected_at
                => RunOccurrences(wait_times[i].ride_id) >= 1
       /\ \A r \in rides : Cardinality(RunRows(r.id)) = RunOccurrences(r.id)
       /\ \A r \in rides : RunOccurrences(r.id) <= 1 => Cardinality(RunRows(r.id)) <= 1

\* a completed run in which one park served ride 1001 twice: two rows for the
\* ride with the run's collected_at
C13_Witness ==
    /\ Completed
    /\ \E n \in 1..Len(served) : served[n] = Some(RepeatResponse)
    /\ \A n \in 1..Len(served) : served[n] \in {None, Some(RepeatResponse), Some(EmptyResponse)}
    /\ Cardinality({n \in 1..Len(served) : served[n] = Some(RepeatResponse)}) = 1
    /\ Cardinality(RunRows(1001)) = 2

\* C14: every stored reading has derived fields that agree with its
\* collected_at (seconds counted from a Monday 00:00:00): day_of_week is the
\* weekday with Monday = 0 and lies in 0..6, hour is the hour of the day and
\* lies in 0..23, and is_weekend holds exactly for day_of_week 5 and 6.
\* A Monday 14:30 gives 0, 14, false; a Saturday 12:00 gives 5, 12, true.
C14_DerivedFields ==
    \A i \in 1..Len(wait_times) :
       LET w == wait_times[i]
           t == w.collected_at
       IN  /\ w.day_of_week = (t \div (24 * 60 * 60)) % 7
           /\ w.day_of_week \in 0..6
           /\ w.hour = (t % (24 * 60 * 60)) \div (60 * 60)
           /\ w.hour \in 0..23
           /\ w.is_weekend <=> w.day_of_week \in {5, 6}
           /\ t = 14 * 3600 + 30 * 60
                 => w.day_of_week = 0 /\ w.hour = 14 /\ w.is_weekend = FALSE
           /\ t = 5 * 86400 + 12 * 3600
                 => w.day_of_week = 5 /\ w.hour = 12 /\ w.is_weekend = TRUE

\* a reading taken on a Monday at 14:30 and one taken on a Saturday are stored
C14_Witness ==
    /\ Len(wait_times) = 2
    /\ \E i \in 1..2 : /\ wait_times[i].collected_at = Monday1430
                       /\ ~wait_times[i].is_weekend
    /\ \E i \in 1..2 : /\ wait_times[i].collected_at = Saturday1200
                       /\ wait_times[i].is_weekend

\* the id of the ride at position p of a response, None when it has none
IdAt(response, p) ==
    IF "id" \in DOMAIN RideAt(response, p) THEN RideAt(response, p).id ELSE None

\* C15: the output of parse_rides has one record for every ride of the
\* response: its length is the sum of the lengths of the rides lists of all
\* lands plus the length of the top-level rides list, and every ride id has
\* as many records as it has occurrences in the response.
C15_OutputLength ==
    pc = "parsed" =>
       LET response == Val(data)
           all == NestedAt(response) \cup TopAt(response)
       IN  /\ Len(ride_records) =
                 Cardinality(NestedAt(response)) + Cardinality(TopAt(response))
           /\ \A p \in all :
                 Cardinality({k \in 1..Len(ride_records) :
                                 ride_records[k].id = IdAt(response, p)})
                   = Cardinality({q \in all : IdAt(response, q) = IdAt(response, p)})

\* a response with two lands and a top-level ride, in which id 1001 occurs
\* three times, was parsed into four records
C15_Witness ==
    /\ pc = "parsed"
    /\ Len(LandsOf(Val(data))) = 2
    /\ Cardinality(NestedAt(Val(data))) = 3
    /\ Cardinality(TopAt(Val(data))) = 1
    /\ Len(ride_records) = 4
    /\ Cardinality({k \in 1..4 : ride_records[k].id = Some(1001)}) = 3

\* The positions of a response in encounter order: the rides of the lands,
\* land by land, then the top-level rides.
Precedes(p, q) ==
    \/ p[1] # 0 /\ q[1] = 0
    \/ p[1] # 0 /\ q[1] # 0 /\ p[1] < q[1]
    \/ p[1] = q[1] /\ p[2] < q[2]
PosOf(response, k) ==
    LET all == NestedAt(response) \cup TopAt(response)
    IN  CHOOSE p \in all : Cardinality({q \in all : Precedes(q, p)}) = k - 1
FieldOf(obj, key) == IF key \in DOMAIN obj THEN obj[key] ELSE None

\* C16: a record made from a ride nested in a land carries that land's id
\* and name as land_id and land_name, a record made from a top-level ride
\* carries null for both, and every record carries the park_id that
\* parse_rides was called with.
C16_LandFields ==
    pc = "parsed" =>
       LET response == Val(data)
       IN  \A k \in 1..Len(ride_records) :
              LET p == PosOf(response, k)
              IN  /\ ride_records[k].park_id = PARKS[park_idx].id
                  /\ ride_records[k].id = FieldOf(RideAt(response, p), "id")
                  /\ IF p[1] = 0
                       THEN /\ ride_records[k].land_id = None
                            /\ ride_records[k].land_name = None
                       ELSE /\ ride_records[k].land_id =
                                  FieldOf(LandsOf(response)[p[1]], "id")
                            /\ ride_records[k].land_name =
                                  FieldOf(LandsOf(response)[p[1]], "name")

\* parse_rides was called for the second park with a response of two lands
\* with rides and a top-level ride: records of land 100, of land 101 and
\* without land
C16_Witness ==
    /\ pc = "parsed"
    /\ park_idx = 2
    /\ \E k \in 1..Len(ride_records) :
          /\ ride_records[k].land_id = Some(100)
          /\ ride_records[k].land_name = Some(<<"Land", 1>>)
    /\ \E k \in 1..Len(ride_records) :
          /\ ride_records[k].land_id = Some(101)
          /\ ride_records[k].land_name = Some(<<"Land", 2>>)
    /\ \E k \in 1..Len(ride_records) :
          /\ ride_records[k].land_id = None
          /\ ride_records[k].land_name = None
    /\ \A k \in 1..Len(ride_records) : ride_records[k].park_id = PARKS[2].id

\* C17: the output of parse_rides lists the rides in encounter order: the
\* rides of the lands, land by land and within a land in the order of its
\* rides list, and after them the top-level rides in their order; and
\* collect_park writes the readings of a park in this order: the j-th
\* reading it has written is for the j-th ride in this order.
C17_EncounterOrder ==
    pc \in {"parsed", "insert_land", "insert_ride", "insert_wait_time",
            "return_records"} =>
       LET response == Val(data)
           all == NestedAt(response) \cup TopAt(response)
       IN  /\ Len(ride_records) = Cardinality(all)
           /\ \A k \in 1..Len(ride_records) :
                 LET p == PosOf(response, k)
                 IN  /\ ride_records[k].id = FieldOf(RideAt(response, p), "id")
                     /\ ride_records[k].name = FieldOf(RideAt(response, p), "name")
                     /\ (p[1] = 0) <=> (k > Cardinality(NestedAt(response)))
           /\ Len(wait_times) = before.wait_times + records_inserted
           /\ \A j \in 1..records_inserted :
                 Some(wait_times[before.wait_times + j].ride_id)
                    = FieldOf(RideAt(response, PosOf(response, j)), "id")
           /\ pc = "return_records" => records_inserted = Cardinality(all)

\* collect_park has written the three readings of the sample response: the
\* two rides of the land in their order, then the standalone ride
C17_Witness ==
    /\ pc = "return_records"
    /\ data = Some(SampleResponse)
    /\ Len(wait_times) >= 3
    /\ wait_times[Len(wait_times) - 2].ride_id = 1001
    /\ wait_times[Len(wait_times) - 1].ride_id = 1002
    /\ wait_times[Len(wait_times)].ride_id = 2001
    /\ ride_records[3].land_id = None

\* C18: parse_rides tolerates missing keys. A response without "lands" key
\* yields exactly its top-level rides, in order and without land; a response
\* without top-level "rides" key yields only the rides of its lands; a land
\* without "rides" key has no record; the empty response and a response
\* whose lands list is empty and that has no top-level rides yield the
\* empty list. The call returns a list for every one of these responses.
C18_MissingTolerant ==
    /\ pc \in {"idle", "parsed"}
    /\ pc = "parsed" =>
          LET response == Val(data)
          IN  /\ "lands" \notin DOMAIN response =>
                    /\ Len(ride_records) = Len(RidesOf(response))
                    /\ \A k \in 1..Len(ride_records) :
                          /\ ride_records[k].id = FieldOf(RidesOf(response)[k], "id")
                          /\ ride_records[k].name = FieldOf(RidesOf(response)[k], "name")
                          /\ ride_records[k].land_id = None
              /\ "rides" \notin DOMAIN response =>
                    /\ Len(ride_records) = Cardinality(NestedAt(response))
                    /\ \A k \in 1..Len(ride_records) : ride_records[k].land_id # None
              /\ \A l \in 1..Len(LandsOf(response)) :
                    "rides" \notin DOMAIN LandsOf(response)[l] =>
                       \A k \in 1..Len(ride_records) :
                          ride_records[k].land_id # LandsOf(response)[l].id
              /\ response = EmptyResponse => ride_records = <<>>
              /\ ( /\ "lands" \in DOMAIN response
                   /\ response.lands = <<>>
                   /\ RidesOf(response) = <<>> ) => ride_records = <<>>

\* a response with two top-level rides and no "lands" key was parsed into
\* two records
C18_Witness ==
    /\ pc = "parsed"
    /\ DOMAIN Val(data) = {"rides"}
    /\ Len(Val(data).rides) = 2
    /\ Len(ride_records) = 2
    /\ ride_records[1].name # ride_records[2].name

\* C19: init_database can be called at any point and any number of times:
\* it raises nothing, afterwards the four tables and the two indexes exist,
\* nothing that existed is removed, a complete schema stays as it is, and
\* every park, land, ride and reading row is as it was before the call.
C19_InitPreserves ==
    [][ call'.op = "init_database" =>
          /\ call'.raised = "none"
          /\ {"parks", "lands", "rides", "wait_times"} \subseteq schema'
          /\ {"idx_wait_times_collected_at", "idx_wait_times_ride_id"} \subseteq schema'
          /\ Cardinality(schema') = 6
          /\ schema \subseteq schema'
          /\ Cardinality(schema) = 6 => schema' = schema
          /\ parks' = parks
          /\ lands' = lands
          /\ rides' = rides
          /\ wait_times' = wait_times ]_vars

\* init_database was called again on a store that holds a park, a land, a
\* ride and a reading, and they are still there
C19_Witness ==
    /\ call.op = "init_database"
    /\ parks # {}
    /\ lands # {}
    /\ rides # {}
    /\ Len(wait_times) >= 1
    /\ Cardinality(schema) = 6

\* C20: the store calls of collect_park come in a fixed order. With c the
\* call made in a step and prev the store call before it:
\*   - insert_land is called only with a non-null land id, for the park in
\*     progress, right after that park's insert_park or after the previous
\*     ride's reading;
\*   - insert_ride of a ride with a land comes right after the successful
\*     insert_land of that land; insert_ride of a ride without land comes
\*     right after the park's insert_park or the previous ride's reading;
\*   - insert_wait_time comes right after the insert_ride of the same ride;
\*   - the lands and rides are written for a park already stored by the
\*     insert_park that opened this collect_park.
C20_Step ==
    call' # call =>
       LET c == call'
           prev == call
           opens == /\ prev.op = "insert_park"
                    /\ prev.raised = "none"
                    /\ prev.args[1] = Some(park.id)
                    /\ ride_idx = 1
           next_ride == /\ prev.op = "insert_wait_time"
                        /\ prev.raised = "none"
                        /\ ride_idx > 1
       IN  /\ c.op = "insert_park" =>
                 /\ prev.op \in {"init_database", "insert_park", "insert_wait_time"}
                 /\ c.args[1] = Some(park.id)
                 /\ records_inserted = 0
           /\ c.op = "insert_land" =>
                 /\ c.args[1] # None
                 /\ c.args[1] = ride.land_id
                 /\ c.args[2] = Some(park.id)
                 /\ park.id \in Ids(parks)
                 /\ opens \/ next_ride
           /\ c.op = "insert_ride" =>
                 /\ c.args[1] = ride.id
                 /\ c.args[2] = Some(park.id)
                 /\ park.id \in Ids(parks)
                 /\ IF c.args[4] # None
                      THEN /\ prev.op = "insert_land"
                           /\ prev.raised = "none"
                           /\ prev.args[1] = c.args[4]
                      ELSE opens \/ next_ride
           /\ c.op = "insert_wait_time" =>
                 /\ prev.op = "insert_ride"
                 /\ prev.raised = "none"
                 /\ prev.args[1] = c.args[1]
                 /\ c.args[1] = ride.id

C20_WriteOrder == [][C20_Step]_vars

\* collect_park of the first park wrote the sample response into an empty
\* store: the land, its two rides with their readings, the standalone ride
\* without land, and last the standalone ride's reading
C20_Witness ==
    /\ pc = "return_records"
    /\ park_idx = 1
    /\ before.rides = 0
    /\ data = Some(SampleResponse)
    /\ Ids(lands) = {100}
    /\ Ids(rides) = {1001, 1002, 2001}
    /\ call.op = "insert_wait_time"
    /\ call.args[1] = Some(2001)
    /\ call.raised = "none"

\* C21 as stated: every write of collect_park finds the rows it refers to
\* already stored (the park for a land or a ride, the land for a ride with
\* a land, the ride for a reading), and no write of collect_park raises an
\* integrity error, whatever response was fetched.
C21_ReferencesPresent ==
    [][ call' # call =>
          /\ call'.op = "insert_land" => Val(call'.args[2]) \in Ids(parks)
          /\ call'.op = "insert_ride" =>
                /\ Val(call'.args[2]) \in Ids(parks)
                /\ call'.args[4] # None => Val(call'.args[4]) \in Ids(lands)
          /\ call'.op = "insert_wait_time" =>
                /\ call'.args[1] # None
                /\ Val(call'.args[1]) \in Ids(rides)
          /\ call'.raised # "IntegrityError" ]_vars

\* the names of the first n configured parks
ParkNames(n) == {PARKS[i].name : i \in 1..n}

\* C22: the parks are processed one at a time in configured order. While
\* park number park_idx is in progress the outcomes recorded are exactly
\* those of the parks before it; the park in progress changes only to the
\* next configured park, and only when collect_park has returned and its
\* outcome is recorded; a request is issued only by the fetch of the park in
\* progress, one per step, before any write of that park, and every store
\* write is for the park in progress and happens in a step that issues no
\* request.
C22_State ==
    pc \in Running =>
       /\ park_idx \in 1..Len(PARKS)
       /\ DOMAIN results = ParkNames(park_idx - 1)
       /\ Len(served) = IF pc \in {"fetch", "sleep", "return_none"}
                          THEN park_idx - 1 ELSE park_idx

C22_Step ==
    /\ park_idx' # park_idx =>
          /\ park_idx' = park_idx + 1
          /\ pc \in {"return_none", "return_records"}
          /\ DOMAIN results' = ParkNames(park_idx)
          /\ sent' = 0
          /\ pc' = "fetch"
    /\ (sent' # sent /\ pc # "idle" /\ park_idx' = park_idx) =>
          /\ sent' = sent + 1
          /\ pc = "fetch"
          /\ ride_records = <<>>
          /\ records_inserted = 0
          /\ UNCHANGED <<parks, lands, rides, wait_times, call>>
    /\ <<parks, lands, rides, wait_times>>' # <<parks, lands, rides, wait_times>> =>
          /\ pc \in {"insert_park", "insert_land", "insert_ride", "insert_wait_time"}
          /\ sent' = sent
          /\ park_idx' = park_idx
          /\ call'.op = "insert_park" => call'.args[1] = Some(park.id)
          /\ call'.op \in {"insert_land", "insert_ride"} =>
                call'.args[2] = Some(park.id)
          /\ call'.op = "insert_wait_time" => call'.args[1] = ride.id

C22_Sequential == []C22_State /\ [][C22_Step]_vars

\* the third park is being fetched for the second time after the first park
\* was written and the second failed
C22_Witness ==
    /\ pc = "fetch"
    /\ park_idx = 3
    /\ sent = 1
    /\ results[PARKS[1].name] > 0
    /\ results[PARKS[2].name] = -1
    /\ Len(served) = 2

\* C23: there is no commit per park. Every store operation of collect_park
\* commits on its own: a step changes at most one table, by at most one row,
\* and a kill of the process between two operations takes nothing back, so
\* the store stays as the last operation left it.
C23_Step ==
    /\ Cardinality({t \in 1..4 :
                      <<parks, lands, rides, wait_times>>'[t]
                         # <<parks, lands, rides, wait_times>>[t]}) <= 1
    /\ Cardinality(parks') <= Cardinality(parks) + 1
    /\ Cardinality(lands') <= Cardinality(lands) + 1
    /\ Cardinality(rides') <= Cardinality(rides) + 1
    /\ Len(wait_times') <= Len(wait_times) + 1
    /\ pc' = "crashed" => UNCHANGED <<schema, parks, lands, rides, wait_times>>
    /\ pc = "crashed" => UNCHANGED <<schema, parks, lands, rides, wait_times>>

C23_NoParkCommit == [][C23_Step]_vars

\* the process was killed in the first park between the upsert of the second
\* ride and its reading: the park, the land and the first two rides are
\* stored, the first ride has its reading for this run, the second has none
\* and the third ride is not stored
C23_Witness ==
    /\ pc = "crashed"
    /\ park_idx = 1
    /\ data = Some(SampleResponse)
    /\ before.rides = 0
    /\ PARKS[1].id \in Ids(parks)
    /\ Ids(lands) = {100}
    /\ Ids(rides) = {1001, 1002}
    /\ Cardinality(RunRows(1001)) = 1
    /\ RunRows(1002) = {}
    /\ records_inserted = 1

\* C24: an exception raised by a store write of collect_park is not caught
\* and the write is not tried again. The failed write changes nothing; the
\* exception ends collect_park and collect_all_parks at once: no further
\* ride and no further park is processed, no store call follows, the park
\* in progress gets no outcome, so no result map is returned, and the
\* process ends with the traceback; the rows written before the failure
\* stay as they are.
C24_State ==
    pc \in {"aborted", "traceback"} =>
       /\ call.raised # "none"
       /\ DOMAIN results = ParkNames(park_idx - 1)
       /\ ride_idx <= Len(ride_records) \/ ride_records = <<>>
       /\ pc = "traceback" => exit_status = Some(1)

C24_Step ==
    /\ (call' # call /\ call'.raised # "none") =>
          /\ pc' = "aborted"
          /\ UNCHANGED <<schema, parks, lands, rides, wait_times, results,
                         park_idx, ride_idx, records_inserted>>
    /\ pc = "aborted" =>
          /\ pc' = "traceback"
          /\ UNCHANGED <<schema, parks, lands, rides, wait_times, call, results,
                         park_idx, ride_idx, records_inserted, sent>>

C24_WriteFailurePropagates == []C24_State /\ [][C24_Step]_vars

\* the first park was collected, then a write of the second park raised an
\* integrity error: the run ended with the traceback, the third park was
\* not processed and the first park's readings are stored
C24_Witness ==
    /\ pc = "traceback"
    /\ park_idx = 2
    /\ call.raised = "IntegrityError"
    /\ results[PARKS[1].name] = 3
    /\ Len(RunReadings) = 3
    /\ PARKS[2].id \in Ids(parks)
    /\ Len(served) = 2

\* C25: parse_rides fills in defaults for the optional fields a ride lacks:
\* the record of a ride without is_open has is_open = false, the record of
\* a ride without wait_time or last_updated has null there, and a field the
\* ride has is passed on as it is (a null wait_time stays null). The
\* reading collect_park writes for a record carries the record's wait_time,
\* is_open and last_updated, so a closed ride with null wait_time is stored
\* as a reading with null wait_time.
C25_Defaults ==
    pc \in {"parsed", "insert_land", "insert_ride", "insert_wait_time",
            "return_records"} =>
       /\ \A k \in 1..Len(ride_records) :
             LET src == RideAt(Val(data), PosOf(Val(data), k))
                 rec == ride_records[k]
             IN  /\ rec.is_open = IF "is_open" \in DOMAIN src THEN src.is_open
                                  ELSE Some(FALSE)
                 /\ rec.wait_time = IF "wait_time" \in DOMAIN src THEN src.wait_time
                                    ELSE None
                 /\ rec.last_updated = IF "last_updated" \in DOMAIN src
                                         THEN src.last_updated ELSE None
       /\ \A j \in 1..records_inserted :
             LET row == wait_times[before.wait_times + j]
                 rec == ride_records[j]
             IN  /\ row.wait_time = rec.wait_time
                 /\ row.is_open = Val(rec.is_open)
                 /\ row.api_last_updated = rec.last_updated

\* the closed ride 1002 of the sample response has a reading of this run
\* with null wait_time, and the last reading written is for a ride that had
\* neither is_open nor last_updated
C25_Witness ==
    /\ pc = "return_records"
    /\ data = Some(RepeatResponse)
    /\ \E i \in RunRows(1002) : /\ wait_times[i].wait_time = None
                                /\ wait_times[i].is_open = FALSE
    /\ wait_times[Len(wait_times)].is_open = FALSE
    /\ wait_times[Len(wait_times)].wait_time = Some(5)
    /\ wait_times[Len(wait_times)].api_last_updated = None
    /\ wait_times[Len(wait_times) - 1].wait_time = None

\* C26: the status check collects nothing. A call of check_status issues no
\* request and starts no collection, leaves every park, land, ride and
\* reading row as it is, and the ride count and reading count it prints are
\* the numbers of rows of the tables rides and wait_times at that moment;
\* the park count it prints is the number of configured parks.
C26_StatusCheck ==
    [][ call'.op = "check_status" =>
          /\ call'.raised = "none"
          /\ UNCHANGED <<parks, lands, rides, wait_times>>
          /\ UNCHANGED <<sent, served, data, results, pc, collected_at>>
          /\ printed' # None
          /\ Val(printed').rides = Cardinality(rides')
          /\ Val(printed').wait_times = Len(wait_times')
          /\ Val(printed').parks = Len(PARKS) ]_vars

\* the status was checked on a store with one ride and two readings
C26_Witness ==
    /\ call.op = "check_status"
    /\ printed = Some([parks |-> 3, rides |-> 1, wait_times |-> 2])
    /\ Cardinality(rides) = 1
    /\ Len(wait_times) = 2
    /\ sent = 0

\* C27: a collect_park whose fetch fails writes nothing. From its entry to
\* its return of -1 the collector is fetching, sleeping or returning, and in
\* each of these steps no store call is made and the park, land, ride and
\* reading tables stay as they are: the park itself is not upserted.
C27_Step ==
    (pc \in {"fetch", "sleep", "return_none"} /\ pc' # "crashed") =>
       /\ UNCHANGED <<schema, parks, lands, rides, wait_times, call>>
       /\ pc' \in {"fetch", "sleep", "return_none", "insert_park", "done"}
       /\ pc = "return_none" =>
             /\ results' = (park.name :> -1) @@ results
             /\ Ids(rides) = before.ride_ids
             /\ Len(wait_times) = before.wait_times
             /\ data = None

C27_FailedFetchWritesNothing == [][C27_Step]_vars

\* the fetch of the first park failed on an empty store: its outcome is -1
\* and the park is not stored
C27_Witness ==
    /\ park_idx = 2
    /\ pc = "fetch"
    /\ results = (PARKS[1].name :> -1)
    /\ parks = {}
    /\ lands = {}
    /\ rides = {}
    /\ wait_times = <<>>
    /\ call.op = "init_database"

\* C28: a run that is not killed terminates, also when every request fails.
\* A fetch issues at most MAX_RETRIES = 3 requests and every park is fetched
\* once (the park in progress never goes back), which makes at most
\* 3 * Len(PARKS) requests in a run; the run ends either with the traceback
\* of a store write that raised, or with the return of a result map that
\* has one entry for each configured park, each -1 or a count >= 0.
C28_Requests ==
    /\ sent <= MAX_RETRIES
    /\ park_idx \in 1..Len(PARKS)
    /\ Len(served) <= Len(PARKS)

C28_Returned ==
    pc \in {"done", "exited"} =>
       /\ DOMAIN results = ParkNames(Len(PARKS))
       /\ \A k \in DOMAIN results : results[k] = -1 \/ results[k] >= 0
       /\ Len(served) = Len(PARKS)

C28_Terminates ==
    /\ <>(pc \in {"exited", "traceback"})
    /\ []C28_Requests
    /\ []C28_Returned
    /\ [](pc = "traceback" => call.raised # "none")
    /\ [][park_idx' >= park_idx]_vars

\* every request of the run failed: nine requests were made and the run
\* returned -1 for every park
C28_Witness ==
    /\ pc = "exited"
    /\ \A k \in DOMAIN results : results[k] = -1
    /\ served = <<None, None, None>>
    /\ sent = MAX_RETRIES
    /\ exit_status = Some(1)

\* the number of rides, in lands and at top level, of the responses served
TotalRides(responses) ==
    Cardinality(UNION { {<<n, p>> : p \in NestedAt(Val(responses[n]))
                                          \cup TopAt(Val(responses[n]))} :
                        n \in 1..Len(responses) })

\* C29: a second run that is served the responses of the first run leaves
\* the park, land and ride tables as the first run left them, at every
\* moment of the second run, and when it has completed the reading count
\* has grown by the number of rides of the responses, as it had in the
\* first run.
C29_SecondRun ==
    earlier # None =>
       /\ parks = Val(earlier).parks
       /\ lands = Val(earlier).lands
       /\ rides = Val(earlier).rides
       /\ Val(earlier).grown = TotalRides(Val(earlier).served)
       /\ pc = "done" =>
             /\ served = Val(earlier).served
             /\ get_wait_time_count(wait_times)
                   = Val(earlier).readings + Val(earlier).grown
             /\ Len(RunReadings) = TotalRides(served)

\* two runs were served the sample response, the response that repeats a
\* ride and the empty response: the second run added five readings again
C29_Witness ==
    /\ earlier # None
    /\ pc = "done"
    /\ served = <<Some(SampleResponse), Some(RepeatResponse), Some(EmptyResponse)>>
    /\ Val(earlier).grown = 5
    /\ Len(wait_times) = Val(earlier).readings + 5
    /\ Cardinality(rides) = 3

\* every land and ride of the store refers to stored rows
C30_State ==
    /\ \A l \in lands : l.park_id \in Ids(parks)
    /\ \A r \in rides : /\ r.park_id \in Ids(parks)
                        /\ r.land_id # None => Val(r.land_id) \in Ids(lands)

\* the call made by the step is an upsert of a land or ride that names a
\* park or land the store does not hold
C30_AbsentParent ==
    \/ /\ call'.op = "insert_land"
       /\ call'.args[2] # None /\ Val(call'.args[2]) \notin Ids(parks)
    \/ /\ call'.op = "insert_ride"
       /\ \/ call'.args[2] # None /\ Val(call'.args[2]) \notin Ids(parks)
          \/ call'.args[4] # None /\ Val(call'.args[4]) \notin Ids(lands)

\* the call made by the step would add a row: its name is not null and its
\* id is not stored
C30_WouldAdd ==
    /\ call'.args[3] # None
    /\ call'.args[2] # None
    /\ \/ call'.args[1] = None
       \/ /\ call'.op = "insert_land"
          /\ Val(call'.args[1]) \notin Ids(lands)
       \/ /\ call'.op = "insert_ride"
          /\ Val(call'.args[1]) \notin Ids(rides)

C30_NothingDeleted ==
    /\ parks \subseteq parks'
    /\ lands \subseteq lands'
    /\ rides \subseteq rides'
    /\ Len(wait_times) <= Len(wait_times')
    /\ SubSeq(wait_times', 1, Len(wait_times)) = wait_times

C30_RejectedStep ==
    C30_AbsentParent => call'.raised # "none"

\* C30 as stated: the references of lands and rides are always present,
\* every upsert of a land or ride that names an absent park or land raises
\* an error, and nothing is deleted.
C30_AsStated ==
    []C30_State /\ [][C30_RejectedStep /\ C30_NothingDeleted]_vars

C30_Step ==
    /\ C30_NothingDeleted
    /\ (C30_AbsentParent /\ C30_WouldAdd) =>
          /\ call'.raised \in {"IntegrityError", "OperationalError"}
          /\ "lands" \in schema /\ "rides" \in schema
                => call'.raised = "IntegrityError"
          /\ UNCHANGED <<parks, lands, rides, wait_times>>
    /\ (/\ call'.op \in {"insert_land", "insert_ride"}
        /\ C30_AbsentParent
        /\ ~C30_WouldAdd
        /\ "lands" \in schema /\ "rides" \in schema) =>
          /\ call'.raised = "none"
          /\ UNCHANGED <<parks, lands, rides, wait_times>>

\* C30: the references of lands and rides are always present and nothing is
\* deleted; an upsert of a land or ride that would add a row (name not
\* null, id not stored) and names an absent park or land raises an
\* integrity error and changes nothing, while an upsert that is ignored
\* (null name or id already stored) raises nothing even when the park or
\* land it names is absent.
C30_ReferentialIntegrity ==
    []C30_State /\ [][C30_Step]_vars

\* a new ride that names a land the store does not hold was rejected, and
\* the stored ride has a land
C30_Witness ==
    /\ call.op = "insert_ride"
    /\ call.raised = "IntegrityError"
    /\ call.args[4] = Some(100)
    /\ parks # {}
    /\ lands = {}
    /\ rides # {}

\* the land of the response that holds the ride at nested position p
LandAt(response, p) == LandsOf(response)[p[1]]

\* the lands of a response, by index, that have a non-null id and at least
\* one ride
CarriedLands(response) ==
    {l \in 1..Len(LandsOf(response)) :
        /\ FieldOf(LandsOf(response)[l], "id") # None
        /\ RidesOf(LandsOf(response)[l]) # <<>>}

\* the ride at position p of the response is in a land with a non-null id
C31_Carried(response, p) == p[1] \in CarriedLands(response)

\* collect_park is about to return: every land of the response with a
\* non-null id and a ride is stored
C31_Returned ==
    pc = "return_records" =>
       \A l \in CarriedLands(Val(data)) :
          Val(LandsOf(Val(data))[l].id) \in Ids(lands)

\* a change of the lands table adds the land of the ride in progress, which
\* has a non-null id, and no earlier ride of the response is in a land of
\* that id
C31_Added ==
    lands' # lands =>
       /\ pc = "insert_land"
       /\ LET p    == PosOf(Val(data), ride_idx)
              land == LandAt(Val(data), p)
          IN  /\ C31_Carried(Val(data), p)
              /\ lands' = lands \cup {[id |-> Val(land.id), park_id |-> park.id,
                                       name |-> Val(FieldOf(land, "name"))]}
              /\ \A q \in NestedAt(Val(data)) :
                    Precedes(q, p) => FieldOf(LandAt(Val(data), q), "id") # land.id

\* the loop upserts the land of a ride exactly when the ride is in a land
\* with a non-null id, with that land's id and name
C31_OncePerRide ==
    /\ (pc \in {"insert_park", "insert_wait_time"}
          /\ pc' \in {"insert_land", "insert_ride"}) =>
          (pc' = "insert_land"
              <=> C31_Carried(Val(data), PosOf(Val(data), ride_idx')))
    /\ pc = "insert_land" =>
          LET land == LandAt(Val(data), PosOf(Val(data), ride_idx))
          IN  /\ call'.op = "insert_land"
              /\ call'.args = <<land.id, Some(park.id), FieldOf(land, "name")>>
              /\ pc' \in {"insert_ride", "aborted"}
    /\ call'.op = "insert_land" /\ call' # call => pc = "insert_land"

\* an upsert of a land that returned leaves the land in the store
C31_Persisted ==
    (pc = "insert_land" /\ call'.raised = "none") =>
       Val(ride.land_id) \in Ids(lands')

\* C31 as stated: collect_park stores a land only through a ride in it: the
\* lands it adds are exactly the lands of the response with a non-null id
\* and at least one ride, a land with an empty or missing rides list is not
\* stored, and a land is upserted once for each of its rides, only the first
\* of these upserts adding a row.
C31_LandsThroughRides ==
    []C31_Returned /\ [][C31_Added /\ C31_OncePerRide /\ C31_Persisted]_vars

====
